---- MODULE Spec2Model ----
(***************************************************************************)
(* Model of src/pages/generated/debug_script.py: the delimiter balance     *)
(* checker check_balance, run by the script on the raw file text, and the  *)
(* string/comment remover remove_comments_and_strings defined beside it.   *)
(*                                                                         *)
(* A text is a sequence of one-character strings.  Indices i, idx are the  *)
(* 0-based Python indices; the character at Python index j of t is t[j+1]. *)
(***************************************************************************)
EXTENDS Integers, Sequences, FiniteSets, TLC

VARIABLES text, pc, i, stack, result,
          in_string, string_char, in_comment, in_block_comment, output

vars == <<text, pc, i, stack, result,
          in_string, string_char, in_comment, in_block_comment, output>>

-----------------------------------------------------------------------------
(* Bounds and input texts *)

\* longest enumerated text handed to check_balance
MaxLen == 4

\* longest enumerated text handed to remove_comments_and_strings
MaxMaskLen == 4

NL == "\n"
BS == "\\"
DQ == "\""
SQ == "'"
\* the back-quote character (written by name: the lexer admits no back-quote in a string)
BQ == "backquote"

\* characters enumerated for check_balance
Alphabet == {"(", ")", "{", "}", "[", "]", "<", ">", NL, DQ, "/", "a"}

\* characters enumerated for remove_comments_and_strings
MaskAlphabet == {DQ, SQ, BQ, "/", "*", BS, NL, "}", "a"}

SeqsUpTo(S, n) == UNION {[1..m -> S] : m \in 0..n}

\* func() { return [1,2]; }
Scenario1 == <<"f","u","n","c","(",")"," ","{"," ","r","e","t","u","r","n"," ",
               "[","1",",","2","]",";"," ","}">>
\* func() { return [1,2); }
Scenario2 == <<"f","u","n","c","(",")"," ","{"," ","r","e","t","u","r","n"," ",
               "[","1",",","2",")",";"," ","}">>
\* <div className="a}b">{x}</div>
Scenario3 == <<"<","d","i","v"," ","c","l","a","s","s","N","a","m","e","=",DQ,
               "a","}","b",DQ,">","{","x","}","<","/","d","i","v",">">>
\* { // }
\* }
Scenario4 == <<"{"," ","/","/"," ","}",NL,"}">>

Scenarios == {Scenario1, Scenario2, Scenario3, Scenario4}

Texts == SeqsUpTo(Alphabet, MaxLen) \cup Scenarios

\* "\\\\"} : a string holding one escaped backslash, then a closing brace
EscapedBackslash == <<DQ, BS, BS, DQ, "}">>

MaskTexts == SeqsUpTo(MaskAlphabet, MaxMaskLen) \cup Scenarios \cup {EscapedBackslash}

-----------------------------------------------------------------------------
(* Python helpers *)

\* text[j] for a Python index j; a negative j counts from the end
PyIndex(t, j) == IF j < 0 THEN t[Len(t) + j + 1] ELSE t[j + 1]

\* mutant: the + 1 forgotten, lines counted from 0
LineNoFromZero(t, n) == Cardinality({p \in 1..n : t[p] = NL})

\* text[:n].count('\n') + 1
LineNo(t, n) == Cardinality({p \in 1..n : t[p] = NL}) + 1

RECURSIVE Join(_)
\* "".join(output): the pieces of output concatenated
Join(out) == IF out = <<>> THEN <<>> ELSE Head(out) \o Join(Tail(out))

-----------------------------------------------------------------------------
(* check_balance *)

\* mutant: a typing slip in the dictionary, ] paired with (
pairsSlip == (")" :> "(") @@ ("}" :> "{") @@ ("]" :> "(") @@ (">" :> "<")

\* the dictionary pairs
pairs == (")" :> "(") @@ ("}" :> "{") @@ ("]" :> "[") @@ (">" :> "<")

\* mutant: the angle bracket tested as an opener too
OpenersWithAngle == {"(", "{", "[", "<"}

\* the characters of the test  char in '({['
Openers == {"(", "{", "["}

\* the characters of the test  char in ')}]'
Closers == {")", "}", "]"}

NoResult == [kind |-> "None", character |-> "", line |-> 0, opener |-> "", index |-> 0]

\* f"Unmatched closing '{char}' at line {line_no}, char {i}"
Unmatched(char, line_no, n) ==
    [kind |-> "UnmatchedClosing", character |-> char, line |-> line_no,
     opener |-> "", index |-> n]

\* f"Mismatched closing '{char}' at line {line_no} (opened by '{last_open}' at index {idx})"
Mismatched(char, line_no, last_open, idx) ==
    [kind |-> "MismatchedClosing", character |-> char, line |-> line_no,
     opener |-> last_open, index |-> idx]

\* f"Unclosed '{last_open}' at line {line_no}"
Unclosed(last_open, line_no) ==
    [kind |-> "UnclosedOpening", character |-> last_open, line |-> line_no,
     opener |-> "", index |-> 0]

Balanced == [kind |-> "Balanced", character |-> "", line |-> 0, opener |-> "", index |-> 0]

\* the tuple (char, i)
Frame(char, n) == [character |-> char, position |-> n]

\* mutant: stack.insert(0, frame), the frame put at the bottom
StackInsertBottom(s, frame) == <<frame>> \o s

\* stack.append(frame)
StackAppend(s, frame) == Append(s, frame)

\* the element stack.pop() returns
StackLast(s) == s[Len(s)]

\* mutant: stack.pop(0), the bottom frame removed
StackPoppedBottom(s) == Tail(s)

\* the list stack.pop() leaves
StackPopped(s) == SubSeq(s, 1, Len(s) - 1)

\* mutant: stack[0] read instead of stack[-1]
UnclosedFrameBottom(s) == s[1]

\* the element stack[-1] read after the loop
UnclosedFrame(s) == s[Len(s)]

\* mutant: the message is kept but the loop goes on (no return)
ReturnInLoopGoesOn(b, r) == [b EXCEPT !.result = r, !.i = @ + 1]

\* a return statement inside the for loop: the scan ends with this value
ReturnInLoop(b, r) == [b EXCEPT !.result = r, !.pc = "done"]

\* one iteration of  for i, char in enumerate(text)
LoopBody(t, b) ==
    LET char == t[b.i + 1] IN
    IF char \in Openers
    THEN [b EXCEPT !.stack = StackAppend(b.stack, Frame(char, b.i)), !.i = b.i + 1]
    ELSE IF char \in Closers
    THEN IF b.stack = <<>>
         THEN ReturnInLoop(b, Unmatched(char, LineNo(t, b.i), b.i))
         ELSE LET last == StackLast(b.stack)
                  b2   == [b EXCEPT !.stack = StackPopped(b.stack)]
              IN  IF pairs[char] # last.character
                  THEN ReturnInLoop(b2, Mismatched(char, LineNo(t, b.i),
                                                   last.character, last.position))
                  ELSE [b2 EXCEPT !.i = b.i + 1]
    ELSE [b EXCEPT !.i = b.i + 1]

\* the statements after the loop
AfterLoop(t, b) ==
    IF b.stack # <<>>
    THEN LET last == UnclosedFrame(b.stack) IN
         [b EXCEPT !.result = Unclosed(last.character, LineNo(t, last.position)),
                   !.pc = "done"]
    ELSE [b EXCEPT !.result = Balanced, !.pc = "done"]

BalanceStart == [i |-> 0, stack |-> <<>>, result |-> NoResult, pc |-> "loop"]

BalanceStep(t, b) == IF b.i < Len(t) THEN LoopBody(t, b) ELSE AfterLoop(t, b)

RECURSIVE BalanceRun(_, _)
BalanceRun(t, b) == IF b.pc = "done" THEN b ELSE BalanceRun(t, BalanceStep(t, b))

\* the value check_balance(t) returns
check_balance(t) == BalanceRun(t, BalanceStart).result

-----------------------------------------------------------------------------
(* remove_comments_and_strings *)

Quotes == {DQ, SQ, BQ}

\* the piece " "
OneSpace == <<" ">>

\* mutant: one space appended for a two-character token
TwoSpacesShort == <<" ">>

\* the piece "  "
TwoSpaces == <<" ", " ">>

\* mutant: any quote character ends the string, not only the one that opened it
StringBranchAnyQuote(t, m) ==
    LET char == t[m.i + 1] IN
    [m EXCEPT !.in_string = IF char \in Quotes /\ PyIndex(t, m.i - 1) # BS
                            THEN FALSE ELSE @,
              !.output = Append(@, OneSpace)]

RECURSIVE BackslashRun(_, _)
\* the number of consecutive backslashes ending at position n of t
BackslashRun(t, n) == IF n >= 1 /\ t[n] = BS THEN 1 + BackslashRun(t, n - 1) ELSE 0

\* mutant: the escape state is tracked, a quote after an even run of backslashes
\* ends the string
StringBranchCountsEscapes(t, m) ==
    LET char == t[m.i + 1] IN
    [m EXCEPT !.in_string = IF char = m.string_char /\ BackslashRun(t, m.i) % 2 = 0
                            THEN FALSE ELSE @,
              !.output = Append(@, OneSpace)]

\* the branch  if in_string
StringBranch(t, m) ==
    LET char == t[m.i + 1] IN
    [m EXCEPT !.in_string = IF char = m.string_char /\ PyIndex(t, m.i - 1) # BS
                            THEN FALSE ELSE @,
              !.output = Append(@, OneSpace)]

\* mutant: the newline that ends a line comment is replaced by a space too
CommentBranchMasksNewline(t, m) ==
    LET char == t[m.i + 1] IN
    IF char = NL
    THEN [m EXCEPT !.in_comment = FALSE, !.output = Append(@, OneSpace)]
    ELSE [m EXCEPT !.output = Append(@, OneSpace)]

\* mutant: a quote inside a line comment starts a string
CommentBranchStartsString(t, m) ==
    LET char == t[m.i + 1] IN
    IF char = NL
    THEN [m EXCEPT !.in_comment = FALSE, !.output = Append(@, <<char>>)]
    ELSE IF char \in Quotes
    THEN [m EXCEPT !.in_string = TRUE, !.string_char = char,
                   !.output = Append(@, OneSpace)]
    ELSE [m EXCEPT !.output = Append(@, OneSpace)]

\* the branch  elif in_comment
CommentBranch(t, m) ==
    LET char == t[m.i + 1] IN
    IF char = NL
    THEN [m EXCEPT !.in_comment = FALSE, !.output = Append(@, <<char>>)]
    ELSE [m EXCEPT !.output = Append(@, OneSpace)]

\* mutant: the end of a block comment found by looking back, a / after a *
BlockCommentBranchLooksBack(t, m) ==
    LET char == t[m.i + 1] IN
    IF char = "/" /\ PyIndex(t, m.i - 1) = "*"
    THEN [m EXCEPT !.in_block_comment = FALSE, !.output = Append(@, OneSpace)]
    ELSE [m EXCEPT !.output = Append(@, OneSpace)]

\* the branch  elif in_block_comment
BlockCommentBranch(t, m) ==
    LET char == t[m.i + 1] IN
    IF char = "*" /\ m.i + 1 < Len(t) /\ t[m.i + 2] = "/"
    THEN [m EXCEPT !.in_block_comment = FALSE, !.i = @ + 1,
                   !.output = Append(@, TwoSpaces)]
    ELSE [m EXCEPT !.output = Append(@, OneSpace)]

\* mutant: every / is replaced by a space, a lone one too
CodeBranchMasksSlash(t, m) ==
    LET char == t[m.i + 1] IN
    IF char \in Quotes
    THEN [m EXCEPT !.in_string = TRUE, !.string_char = char,
                   !.output = Append(@, OneSpace)]
    ELSE IF char = "/" /\ m.i + 1 < Len(t) /\ t[m.i + 2] = "/"
    THEN [m EXCEPT !.in_comment = TRUE, !.i = @ + 1, !.output = Append(@, TwoSpaces)]
    ELSE IF char = "/" /\ m.i + 1 < Len(t) /\ t[m.i + 2] = "*"
    THEN [m EXCEPT !.in_block_comment = TRUE, !.i = @ + 1,
                   !.output = Append(@, TwoSpaces)]
    ELSE IF char = "/"
    THEN [m EXCEPT !.output = Append(@, OneSpace)]
    ELSE [m EXCEPT !.output = Append(@, <<char>>)]

\* mutant: i += 2 at the start of a line comment
CodeBranchSkipsThree(t, m) ==
    LET char == t[m.i + 1] IN
    IF char \in Quotes
    THEN [m EXCEPT !.in_string = TRUE, !.string_char = char,
                   !.output = Append(@, OneSpace)]
    ELSE IF char = "/" /\ m.i + 1 < Len(t) /\ t[m.i + 2] = "/"
    THEN [m EXCEPT !.in_comment = TRUE, !.i = @ + 2, !.output = Append(@, TwoSpaces)]
    ELSE IF char = "/" /\ m.i + 1 < Len(t) /\ t[m.i + 2] = "*"
    THEN [m EXCEPT !.in_block_comment = TRUE, !.i = @ + 1,
                   !.output = Append(@, TwoSpaces)]
    ELSE [m EXCEPT !.output = Append(@, <<char>>)]

\* mutant: output.append(" ") in the last branch too
CodeBranchBlanks(t, m) ==
    LET char == t[m.i + 1] IN
    IF char \in Quotes
    THEN [m EXCEPT !.in_string = TRUE, !.string_char = char,
                   !.output = Append(@, OneSpace)]
    ELSE IF char = "/" /\ m.i + 1 < Len(t) /\ t[m.i + 2] = "/"
    THEN [m EXCEPT !.in_comment = TRUE, !.i = @ + 1, !.output = Append(@, TwoSpaces)]
    ELSE IF char = "/" /\ m.i + 1 < Len(t) /\ t[m.i + 2] = "*"
    THEN [m EXCEPT !.in_block_comment = TRUE, !.i = @ + 1,
                   !.output = Append(@, TwoSpaces)]
    ELSE [m EXCEPT !.output = Append(@, OneSpace)]

\* the final else branch: the start of a string or comment, or plain code
CodeBranch(t, m) ==
    LET char == t[m.i + 1] IN
    IF char \in Quotes
    THEN [m EXCEPT !.in_string = TRUE, !.string_char = char,
                   !.output = Append(@, OneSpace)]
    ELSE IF char = "/" /\ m.i + 1 < Len(t) /\ t[m.i + 2] = "/"
    THEN [m EXCEPT !.in_comment = TRUE, !.i = @ + 1, !.output = Append(@, TwoSpaces)]
    ELSE IF char = "/" /\ m.i + 1 < Len(t) /\ t[m.i + 2] = "*"
    THEN [m EXCEPT !.in_block_comment = TRUE, !.i = @ + 1,
                   !.output = Append(@, TwoSpaces)]
    ELSE [m EXCEPT !.output = Append(@, <<char>>)]

\* mutant: the final i += 1 forgotten
MaskBodyNoAdvance(t, m) ==
    IF m.in_string THEN StringBranch(t, m)
    ELSE IF m.in_comment THEN CommentBranch(t, m)
    ELSE IF m.in_block_comment THEN BlockCommentBranch(t, m)
    ELSE CodeBranch(t, m)

\* one iteration of  while i < length, ending with  i += 1
MaskBody(t, m) ==
    LET m2 == IF m.in_string THEN StringBranch(t, m)
              ELSE IF m.in_comment THEN CommentBranch(t, m)
              ELSE IF m.in_block_comment THEN BlockCommentBranch(t, m)
              ELSE CodeBranch(t, m)
    IN  [m2 EXCEPT !.i = @ + 1]

MaskStart == [i |-> 0, in_string |-> FALSE, string_char |-> "", in_comment |-> FALSE,
              in_block_comment |-> FALSE, output |-> <<>>]

RECURSIVE MaskRun(_, _)
MaskRun(t, m) == IF m.i < Len(t) THEN MaskRun(t, MaskBody(t, m)) ELSE m

\* the value remove_comments_and_strings(t) returns
remove_comments_and_strings(t) == Join(MaskRun(t, MaskStart).output)

-----------------------------------------------------------------------------
(* The script: print(check_balance(code)) on the raw text *)

CurBalance == [i |-> i, stack |-> stack, result |-> result, pc |-> pc]

SetBalance(b) ==
    /\ i' = b.i
    /\ stack' = b.stack
    /\ result' = b.result
    /\ pc' = b.pc

MaskIdle == UNCHANGED <<text, in_string, string_char, in_comment, in_block_comment, output>>

Init ==
    /\ text \in Texts
    /\ pc = "loop"
    /\ i = 0
    /\ stack = <<>>
    /\ result = NoResult
    /\ in_string = FALSE
    /\ string_char = ""
    /\ in_comment = FALSE
    /\ in_block_comment = FALSE
    /\ output = <<>>

InLoop == pc = "loop" /\ i < Len(text)

\* char in '({[' : push
Push ==
    /\ InLoop
    /\ text[i + 1] \in Openers
    /\ SetBalance(LoopBody(text, CurBalance))
    /\ MaskIdle

\* a closer with an empty stack: return "Unmatched closing ..."
ReturnUnmatched ==
    /\ InLoop
    /\ text[i + 1] \in Closers
    /\ stack = <<>>
    /\ SetBalance(LoopBody(text, CurBalance))
    /\ MaskIdle

\* a closer whose popped opener is its pair: continue
PopMatching ==
    /\ InLoop
    /\ text[i + 1] \in Closers
    /\ stack # <<>>
    /\ pairs[text[i + 1]] = StackLast(stack).character
    /\ SetBalance(LoopBody(text, CurBalance))
    /\ MaskIdle

\* a closer whose popped opener is not its pair: return "Mismatched closing ..."
ReturnMismatched ==
    /\ InLoop
    /\ text[i + 1] \in Closers
    /\ stack # <<>>
    /\ pairs[text[i + 1]] # StackLast(stack).character
    /\ SetBalance(LoopBody(text, CurBalance))
    /\ MaskIdle

\* any other character: nothing happens
Skip ==
    /\ InLoop
    /\ text[i + 1] \notin Openers \cup Closers
    /\ SetBalance(LoopBody(text, CurBalance))
    /\ MaskIdle

\* the loop is over and the stack is not empty: return "Unclosed ..."
ReturnUnclosed ==
    /\ pc = "loop" /\ i >= Len(text)
    /\ stack # <<>>
    /\ SetBalance(AfterLoop(text, CurBalance))
    /\ MaskIdle

\* the loop is over and the stack is empty: return "Balanced"
ReturnBalanced ==
    /\ pc = "loop" /\ i >= Len(text)
    /\ stack = <<>>
    /\ SetBalance(AfterLoop(text, CurBalance))
    /\ MaskIdle

Next ==
    \/ Push
    \/ ReturnUnmatched
    \/ PopMatching
    \/ ReturnMismatched
    \/ Skip
    \/ ReturnUnclosed
    \/ ReturnBalanced

Spec == Init /\ [][Next]_vars

-----------------------------------------------------------------------------
(* remove_comments_and_strings applied to an input text *)

CurMask == [i |-> i, in_string |-> in_string, string_char |-> string_char,
            in_comment |-> in_comment, in_block_comment |-> in_block_comment,
            output |-> output]

SetMask(m) ==
    /\ i' = m.i
    /\ in_string' = m.in_string
    /\ string_char' = m.string_char
    /\ in_comment' = m.in_comment
    /\ in_block_comment' = m.in_block_comment
    /\ output' = m.output

InitMask ==
    /\ text \in MaskTexts
    /\ pc = "mask"
    /\ i = 0
    /\ stack = <<>>
    /\ result = NoResult
    /\ in_string = FALSE
    /\ string_char = ""
    /\ in_comment = FALSE
    /\ in_block_comment = FALSE
    /\ output = <<>>

InMaskLoop == pc = "mask" /\ i < Len(text)

MaskInString ==
    /\ InMaskLoop
    /\ in_string
    /\ SetMask(MaskBody(text, CurMask))
    /\ UNCHANGED <<text, pc, stack, result>>

MaskInComment ==
    /\ InMaskLoop
    /\ ~in_string /\ in_comment
    /\ SetMask(MaskBody(text, CurMask))
    /\ UNCHANGED <<text, pc, stack, result>>

MaskInBlockComment ==
    /\ InMaskLoop
    /\ ~in_string /\ ~in_comment /\ in_block_comment
    /\ SetMask(MaskBody(text, CurMask))
    /\ UNCHANGED <<text, pc, stack, result>>

MaskInCode ==
    /\ InMaskLoop
    /\ ~in_string /\ ~in_comment /\ ~in_block_comment
    /\ SetMask(MaskBody(text, CurMask))
    /\ UNCHANGED <<text, pc, stack, result>>

\* return "".join(output)
MaskReturn ==
    /\ pc = "mask" /\ i >= Len(text)
    /\ pc' = "masked"
    /\ UNCHANGED <<text, i, stack, result,
                   in_string, string_char, in_comment, in_block_comment, output>>

NextMask ==
    \/ MaskInString
    \/ MaskInComment
    \/ MaskInBlockComment
    \/ MaskInCode
    \/ MaskReturn

SpecMask == InitMask /\ [][NextMask]_vars

\* the function runs on: a sequential loop takes its next step whenever it has one
SpecMaskFair == SpecMask /\ WF_vars(NextMask)

-----------------------------------------------------------------------------
(* Claims *)

\* the number of newline characters strictly before Python index n, plus one
LineOf(t, n) == 1 + Cardinality({p \in 1..Len(t) : p <= n /\ t[p] = NL})

\* C1: whenever the characters left after masking strings and comments are
\* balanced, the scan the script reports (print(check_balance(code))) is Balanced.
C1_MaskedScanBalanced ==
    (pc = "done" /\ check_balance(remove_comments_and_strings(text)).kind = "Balanced")
        => result.kind = "Balanced"

\* C2 as stated: an UnclosedOpening result carries the character and line of the
\* bottom-most frame of the stack.
C2_ReportsBottomFrame ==
    (pc = "done" /\ result.kind \notin {"UnmatchedClosing", "MismatchedClosing"}
        /\ stack # <<>>)
        => /\ result.kind = "UnclosedOpening"
           /\ result.character = stack[1].character
           /\ result.line = LineOf(text, stack[1].position)

\* C2 amended: when the text is consumed with no closing failure and the stack is
\* not empty, the result is UnclosedOpening with the character and line of the TOP
\* frame (the most recently opened unclosed opener); a single opener reports its
\* own line.
C2_ReportsTopFrame ==
    (pc = "done" /\ result.kind \notin {"UnmatchedClosing", "MismatchedClosing"}
        /\ stack # <<>>)
        => /\ i = Len(text)
           /\ result.kind = "UnclosedOpening"
           /\ result.character = stack[Len(stack)].character
           /\ result.character = text[stack[Len(stack)].position + 1]
           /\ result.line = LineOf(text, stack[Len(stack)].position)

\* two unclosed openers on different lines: the second line is reported
C2_Witness ==
    /\ pc = "done"
    /\ result.kind = "UnclosedOpening"
    /\ Len(stack) = 2
    /\ stack[1].character # stack[2].character
    /\ LineOf(text, stack[1].position) = 1
    /\ result.line = 2

\* the character just consumed, when the loop went on
Consumed == text[i]

\* C3 as stated: each of ( { [ < pushes a frame (character, position) and > is a
\* closing character: "<" alone is UnclosedOpening, ">" alone UnmatchedClosing,
\* "(>" MismatchedClosing.
C3_FourPairsStructural ==
    /\ (pc = "loop" /\ i > 0 /\ Consumed \in {"(", "{", "[", "<"})
          => (stack # <<>> /\ stack[Len(stack)] = Frame(Consumed, i - 1))
    /\ (pc = "done" /\ text = <<"<">>) => result.kind = "UnclosedOpening"
    /\ (pc = "done" /\ text = <<">">>) => result.kind = "UnmatchedClosing"
    /\ (pc = "done" /\ text = <<"(", ">">>) => result.kind = "MismatchedClosing"

\* C3 amended: three pairs are structural.  Each of ( { [ pushes a frame
\* (character, position); < and > are skipped, never pushed and never treated as
\* closers: a text of angle brackets only is Balanced and "(>" is UnclosedOpening
\* for the parenthesis.
C3_ThreePairsStructural ==
    /\ (pc = "loop" /\ i > 0 /\ Consumed \in {"(", "{", "["})
          => (stack # <<>> /\ stack[Len(stack)] = Frame(Consumed, i - 1))
    /\ \A p \in 1..Len(stack) : stack[p].character \in {"(", "{", "["}
    /\ (pc = "done" /\ \A p \in 1..Len(text) : text[p] \in {"<", ">"})
          => result = Balanced
    /\ (pc = "done" /\ text = <<"(", ">">>) => result = Unclosed("(", 1)

C3_Witness ==
    /\ pc = "done"
    /\ text = <<"(", ">">>
    /\ result.kind = "UnclosedOpening"
    /\ stack = <<Frame("(", 0)>>

\* a character of the given set is about to be examined
Examines(S) == pc = "loop" /\ i < Len(text) /\ text[i + 1] \in S

\* C4 as stated: a closing character among ) } ] > met with an empty stack ends
\* the scan at once with UnmatchedClosing, that character and its line.
C4_FourClosersUnmatched ==
    [][(Examines({")", "}", "]", ">"}) /\ stack = <<>>)
         => /\ pc' = "done"
            /\ i' = i
            /\ result'.kind = "UnmatchedClosing"
            /\ result'.character = text[i + 1]
            /\ result'.line = LineOf(text, i)]_vars

\* C4 amended: a closing character among ) } ] met with an empty stack ends the
\* scan at once with UnmatchedClosing, that character, its line (1 + the newlines
\* strictly before it) and its index; > is not a closing character: it is skipped
\* and the scan goes on.
C4_ThreeClosersUnmatched ==
    [][/\ (Examines({")", "}", "]"}) /\ stack = <<>>)
          => /\ pc' = "done"
             /\ i' = i
             /\ result'.kind = "UnmatchedClosing"
             /\ result'.character = text[i + 1]
             /\ result'.line = LineOf(text, i)
             /\ result'.index = i
       /\ Examines({">"})
          => /\ pc' = "loop"
             /\ i' = i + 1
             /\ stack' = stack
             /\ result' = NoResult]_vars

\* a closer on the second line met with an empty stack, after a balanced pair
C4_Witness ==
    /\ pc = "done"
    /\ result.kind = "UnmatchedClosing"
    /\ result.line = 2
    /\ result.index >= 3
    /\ stack = <<>>

\* the opener paired with a closer
PairedOpener(c) == CASE c = ")" -> "(" [] c = "}" -> "{" [] c = "]" -> "["

NoQuoteNoComment(t) ==
    \A p \in 1..Len(t) :
        /\ t[p] \notin {DQ, SQ, BQ}
        /\ ~(t[p] = "/" /\ p < Len(t) /\ t[p + 1] \in {"/", "*"})

FourPairs == {<<"(", ")">>, <<"{", "}">>, <<"[", "]">>, <<"<", ">">>}

RECURSIVE NestedFrom(_, _, _)
\* the delimiters of t from position p on, over the four pairs, close the
\* openers of open in nesting order and leave none open
NestedFrom(t, p, open) ==
    IF p > Len(t) THEN open = <<>>
    ELSE IF t[p] \in {pr[1] : pr \in FourPairs}
         THEN NestedFrom(t, p + 1, Append(open, t[p]))
    ELSE IF t[p] \in {pr[2] : pr \in FourPairs}
         THEN /\ open # <<>>
              /\ <<open[Len(open)], t[p]>> \in FourPairs
              /\ NestedFrom(t, p + 1, SubSeq(open, 1, Len(open) - 1))
    ELSE NestedFrom(t, p + 1, open)

ProperlyNested(t) == NestedFrom(t, 1, <<>>)

\* C6: a text with no quote and no comment whose delimiters over the four pairs
\* are properly nested and balanced, the empty text included, yields Balanced.
C6_NestedIsBalanced ==
    (pc = "done" /\ NoQuoteNoComment(text) /\ ProperlyNested(text))
        => result = Balanced

\* a properly nested text holding an angle pair and a square pair is Balanced
C6_Witness ==
    /\ pc = "done"
    /\ ProperlyNested(text)
    /\ NoQuoteNoComment(text)
    /\ \E p \in 1..Len(text) : text[p] = "<"
    /\ \E p \in 1..Len(text) : text[p] = "["
    /\ result = Balanced

\* C7: the masked text has a newline at an offset exactly when the input has one
\* there, inside strings, line comments and block comments too.
C7_NewlinesPreserved ==
    pc = "masked"
        => LET masked == Join(output) IN
           \A p \in 1..Len(text) :
               (text[p] = NL) <=> (p <= Len(masked) /\ masked[p] = NL)

\* C8: after every loop step the number of characters emitted equals the number
\* of input characters consumed, and the returned text is as long as the input.
C8_LengthPreserved ==
    pc \in {"mask", "masked"}
        => /\ Len(Join(output)) = i
           /\ i <= Len(text)
           /\ pc = "masked" => Len(Join(output)) = Len(text)

\* a text with a two-character token has been masked: fewer pieces than characters
C8_Witness ==
    /\ pc = "masked"
    /\ Len(output) < Len(text)
    /\ Len(Join(output)) = Len(text)
    /\ Len(text) >= 3

RECURSIVE OpenAfter(_, _)
\* the positions of the openers among the first n characters of t that no later
\* closer among them has closed, in the order they were opened
OpenAfter(t, n) ==
    IF n = 0 THEN <<>>
    ELSE LET before == OpenAfter(t, n - 1) IN
         IF t[n] \in {"(", "{", "["} THEN Append(before, n - 1)
         ELSE IF t[n] \in {")", "}", "]"} /\ before # <<>>
              THEN SubSeq(before, 1, Len(before) - 1)
         ELSE before

\* at Python index p a closer meets an empty stack or a top frame that is not its pair
FailsAt(t, p) ==
    /\ t[p + 1] \in {")", "}", "]"}
    /\ LET open == OpenAfter(t, p) IN
       \/ open = <<>>
       \/ t[open[Len(open)] + 1] # PairedOpener(t[p + 1])

FailPositions(t) == {p \in 0..(Len(t) - 1) : FailsAt(t, p)}

FirstFail(t) == CHOOSE p \in FailPositions(t) : \A q \in FailPositions(t) : p <= q

\* C9: the diagnostic is decided at the leftmost position where a closer meets an
\* empty stack or a non-matching top frame: no character after it is examined,
\* the result is the one the prefix ending there gives, and UnclosedOpening (or
\* Balanced) is reported only when there is no such position.
C9_FirstFailureWins ==
    /\ FailPositions(text) # {} => i <= FirstFail(text)
    /\ pc = "loop" => result = NoResult
    /\ pc = "done" =>
          IF FailPositions(text) # {}
          THEN LET f == FirstFail(text) IN
               /\ i = f
               /\ result.kind \in {"UnmatchedClosing", "MismatchedClosing"}
               /\ result.character = text[f + 1]
               /\ result.line = LineOf(text, f)
               /\ result = check_balance(SubSeq(text, 1, f + 1))
          ELSE result.kind \in {"UnclosedOpening", "Balanced"}

\* a text with two failing positions has ended at the first of them
C9_Witness ==
    /\ pc = "done"
    /\ Cardinality(FailPositions(text)) >= 2
    /\ i = FirstFail(text)
    /\ i < Len(text) - 1
    /\ result.kind = "MismatchedClosing"

\* the frames of the openers still open after the first n characters of t
OpenFrames(t, n) ==
    LET open == OpenAfter(t, n) IN
    [p \in 1..Len(open) |-> Frame(t[open[p] + 1], open[p])]

\* C10: while the loop runs, the stack bottom-to-top is exactly the openers of
\* the consumed prefix not yet closed, in opening order (positions strictly
\* increasing, each character the text's at its position), and a step changes the
\* stack only by a push at the top or a pop of the top.
C10_StackInvariant ==
    /\ [](pc = "loop" =>
            /\ stack = OpenFrames(text, i)
            /\ \A p \in 1..Len(stack) :
                  /\ stack[p].character = text[stack[p].position + 1]
                  /\ stack[p].position < i
                  /\ p > 1 => stack[p - 1].position < stack[p].position)
    /\ [][\/ stack' = stack
          \/ /\ Len(stack') = Len(stack) + 1
             /\ SubSeq(stack', 1, Len(stack)) = stack
          \/ /\ stack # <<>>
             /\ stack' = SubSeq(stack, 1, Len(stack) - 1)]_vars

\* after a push, a pop and a push the stack holds the one opener still open
C10_Witness ==
    /\ pc = "loop"
    /\ i = 3
    /\ text[1] \in {"(", "{", "["}
    /\ text[2] \in {")", "}", "]"}
    /\ stack = <<Frame(text[3], 2)>>

\* the classifier is about to run the branch of its loop for the current mode
InStringMode == pc = "mask" /\ i < Len(text) /\ in_string
InLineCommentMode == pc = "mask" /\ i < Len(text) /\ ~in_string /\ in_comment
InBlockCommentMode ==
    pc = "mask" /\ i < Len(text) /\ ~in_string /\ ~in_comment /\ in_block_comment
InCodeMode ==
    pc = "mask" /\ i < Len(text) /\ ~in_string /\ ~in_comment /\ ~in_block_comment

\* the step emits exactly the given characters
Emits(chars) == Join(output') = Join(output) \o chars

\* C11: in string mode the classifier returns to Code at position i exactly when
\* the character there is the quote that opened the string and the raw character
\* before it is not a backslash; another quote character never ends the string;
\* every character consumed in string mode, the terminator included, is masked.
C11_StringTermination ==
    [][(InStringMode /\ i >= 1)
         => /\ in_string' = ~(text[i + 1] = string_char /\ text[i] # BS)
            /\ (text[i + 1] \in {DQ, SQ, BQ} /\ text[i + 1] # string_char) => in_string'
            /\ ~in_comment' /\ ~in_block_comment'
            /\ string_char' = string_char
            /\ i' = i + 1
            /\ Emits(<<" ">>)]_vars

\* a string opened by one quote has consumed another quote and is still open
C11_Witness ==
    /\ pc = "mask"
    /\ in_string
    /\ i >= 2
    /\ text[i] \in {DQ, SQ, BQ}
    /\ text[i] # string_char
    /\ Join(output)[i] = " "

\* C12: in string mode a quote equal to the opening one that follows two
\* backslashes (an escaped backslash) does not end the string: the classifier
\* stays in string mode and what follows stays masked.
C12_EscapedBackslashFoolsLookbehind ==
    /\ [][(InStringMode /\ i >= 2 /\ text[i + 1] = string_char
              /\ text[i] = BS /\ text[i - 1] = BS /\ BackslashRun(text, i) = 2)
            => /\ in_string'
               /\ string_char' = string_char
               /\ Emits(<<" ">>)]_vars
    /\ [](pc = "masked" /\ text = EscapedBackslash
            => /\ in_string
               /\ Join(output) = <<" ", " ", " ", " ", " ">>)

\* the string "\\" has been read to its closing quote and the brace after it is masked
C12_Witness ==
    /\ pc = "masked"
    /\ text = EscapedBackslash
    /\ in_string
    /\ string_char = DQ
    /\ Join(output)[5] = " "

\* C13: in line-comment mode a character other than a newline is masked and the
\* mode stays; the first newline is emitted as it is and the mode becomes Code, so
\* the next character is handled as Code; quotes, /* and */ change nothing.
C13_LineCommentEnd ==
    [][InLineCommentMode
         => /\ i' = i + 1
            /\ ~in_string' /\ ~in_block_comment'
            /\ IF text[i + 1] = NL
               THEN /\ ~in_comment'
                    /\ Emits(<<NL>>)
                    /\ (i' < Len(text)) => InCodeMode'
               ELSE /\ in_comment'
                    /\ Emits(<<" ">>)]_vars

\* a line comment holding a quote has ended at its newline, which was kept
C13_Witness ==
    /\ pc = "mask"
    /\ i = 4
    /\ text[1] = "/" /\ text[2] = "/"
    /\ text[3] \in {DQ, SQ, BQ}
    /\ text[4] = NL
    /\ ~in_comment /\ ~in_string /\ ~in_block_comment
    /\ Join(output) = <<" ", " ", " ", NL>>

\* C14: in block-comment mode the classifier returns to Code only on the two
\* characters */ starting at the current position, consuming and masking both;
\* any other character (a lone * at the end of the input, a / whatever precedes
\* it) is masked and leaves the mode unchanged, so /*/ does not close the comment
\* it opens.
C14_BlockCommentEnd ==
    /\ [][InBlockCommentMode
            => /\ ~in_string' /\ ~in_comment'
               /\ IF text[i + 1] = "*" /\ i + 2 <= Len(text) /\ text[i + 2] = "/"
                  THEN /\ ~in_block_comment'
                       /\ i' = i + 2
                       /\ Emits(<<" ", " ">>)
                  ELSE /\ in_block_comment'
                       /\ i' = i + 1
                       /\ Emits(<<" ">>)]_vars
    /\ [](pc = "masked" /\ Len(text) = 3
            /\ text[1] = "/" /\ text[2] = "*" /\ text[3] \in {"/", "*"}
            => in_block_comment)

\* the text /*/ has been read to its end and the block comment is still open
C14_Witness ==
    /\ pc = "masked"
    /\ text = <<"/", "*", "/">>
    /\ in_block_comment
    /\ Join(output) = <<" ", " ", " ">>

\* C15: a quote, // or /* starts a string or comment only in Code mode; in Code
\* mode a / that is the last character or is followed by neither / nor * is
\* emitted as it is and the mode stays Code, and so is every other character that
\* starts nothing.
C15_StartersOnlyInCode ==
    [][/\ InCodeMode
          => LET char == text[i + 1]
                 next == IF i + 2 <= Len(text) THEN text[i + 2] ELSE "" IN
             IF char \in {DQ, SQ, BQ}
             THEN /\ in_string' /\ string_char' = char
                  /\ ~in_comment' /\ ~in_block_comment'
                  /\ i' = i + 1 /\ Emits(<<" ">>)
             ELSE IF char = "/" /\ next = "/"
             THEN /\ in_comment' /\ ~in_string' /\ ~in_block_comment'
                  /\ i' = i + 2 /\ Emits(<<" ", " ">>)
             ELSE IF char = "/" /\ next = "*"
             THEN /\ in_block_comment' /\ ~in_string' /\ ~in_comment'
                  /\ i' = i + 2 /\ Emits(<<" ", " ">>)
             ELSE /\ InCodeMode' \/ i' = Len(text)
                  /\ ~in_string' /\ ~in_comment' /\ ~in_block_comment'
                  /\ i' = i + 1 /\ Emits(<<char>>)
       /\ InStringMode => (~in_comment' /\ ~in_block_comment' /\ string_char' = string_char)
       /\ InLineCommentMode => (~in_string' /\ ~in_block_comment')
       /\ InBlockCommentMode => (~in_string' /\ ~in_comment')]_vars

\* a / that ends the text after some code has been emitted as it is, in Code mode
C15_Witness ==
    /\ pc = "masked"
    /\ Len(text) >= 2
    /\ text[Len(text)] = "/"
    /\ text[Len(text) - 1] = "a"
    /\ Join(output)[Len(text)] = "/"
    /\ ~in_string /\ ~in_comment /\ ~in_block_comment

\* C16: the classifier never fails and always terminates: every loop step raises
\* the index by 1 or 2, the index never exceeds the length of the text, the loop
\* ends with the index equal to the length, and the function returns; a string or
\* block comment left open only leaves a non-Code mode at the end.
C16_ClassifierTerminates ==
    /\ [][(pc = "mask" /\ pc' = "mask") => (i' - i \in {1, 2} /\ i' <= Len(text))]_vars
    /\ [](i <= Len(text))
    /\ [](pc = "mask" => ENABLED NextMask)
    /\ [](pc = "masked" =>
            /\ i = Len(text)
            /\ (Len(text) >= 1 /\ text[1] \in {DQ, SQ, BQ}
                  /\ \A p \in 2..Len(text) : text[p] # text[1]) => in_string
            /\ (Len(text) >= 2 /\ text[1] = "/" /\ text[2] = "*"
                  /\ \A p \in 3..Len(text) : text[p] # "/") => in_block_comment)
    /\ <>(pc = "masked")

\* a text that opens a string and never closes it has been read to its end
C16_Witness ==
    /\ pc = "masked"
    /\ i = Len(text)
    /\ Len(text) >= 3
    /\ text[1] = SQ
    /\ \A p \in 2..Len(text) : text[p] # SQ
    /\ in_string

\* the number of mode flags that are set
FlagsSet == Cardinality({f \in {"s", "c", "b"} :
                            \/ f = "s" /\ in_string
                            \/ f = "c" /\ in_comment
                            \/ f = "b" /\ in_block_comment})

\* C17: at most one of in_string, in_comment, in_block_comment is true in every
\* state of the classifier, and none is at the start.
C17_ModesExclusive ==
    pc \in {"mask", "masked"}
        => /\ FlagsSet <= 1
           /\ i = 0 => FlagsSet = 0

\* a quote has been consumed inside a line comment and only in_comment is set
C17_Witness ==
    /\ pc = "mask"
    /\ in_comment /\ ~in_string /\ ~in_block_comment
    /\ i = 3
    /\ text[3] \in {DQ, SQ, BQ}

\* C18: for a text with no quote character and no /, the classifier's output is
\* the input, so the matcher gives the same diagnostic on both.
C18_IdentityWithoutQuotesAndSlashes ==
    (pc = "masked" /\ \A p \in 1..Len(text) : text[p] \notin {DQ, SQ, BQ, "/"})
        => /\ Join(output) = text
           /\ ~in_string /\ ~in_comment /\ ~in_block_comment
           /\ check_balance(Join(output)) = check_balance(text)

\* func() { return [1,2); } comes out unchanged and still gives the mismatch
C18_Witness ==
    /\ pc = "masked"
    /\ text = Scenario2
    /\ Join(output) = Scenario2
    /\ check_balance(Join(output)) = Mismatched(")", 1, "[", 16)

\* C19: whenever the classifier is in string mode the index is at least 1, so
\* text[i-1] is the character just before i and never the last one of the text.
C19_LookbehindInsideText ==
    (pc = "mask" /\ in_string)
        => /\ i >= 1
           /\ PyIndex(text, i - 1) = text[i]

\* a string opened at index 0 of a text whose last character is a backslash
C19_Witness ==
    /\ pc = "mask"
    /\ in_string
    /\ i = 1
    /\ Len(text) >= 3
    /\ text[2] = text[1]
    /\ text[Len(text)] = BS

====
